---- MODULE Spec2Model ----
(***************************************************************************)
(* Model of the pointer-driven cell painting of picross-notepad.py:        *)
(* PicrossApp's grid state, the canvas items that render it, the drag      *)
(* session fields, and the handlers bound to the grid canvas and toolbar.  *)
(***************************************************************************)
EXTENDS Integers, Sequences, FiniteSets, TLC

\* ---- program constants (picross-notepad.py:7-27) ----
CELL_SIZE == 28
GRID_BG_COLOR == "#FFFFFF"
CELL_FILLED_COLOR == "#111111"
EMPTY == 0
FILLED == 1
X == 2
MAYBE == 3
CellState == {EMPTY, FILLED, X, MAYBE}
HINTS_PER_SIDE == 4

\* ---- bounds of the model ----
\* The grid is GRID_DIMENSIONS x GRID_DIMENSIONS (16 in the source); the model
\* checks a smaller board.
GRID_DIMENSIONS == 3
\* Number of events (handler calls) delivered in a behaviour of Spec, whose
\* pointer stays on the corner cells of the board or leaves it.
MaxEvents == 4
\* Number of events delivered in a behaviour of SpecFull, whose pointer
\* visits every cell of the board.
MaxEventsFull == 2
\* Number of events delivered in a behaviour of SpecHints, in which the hint
\* entries are edited and cleared too.
MaxEventsHints == 3

Idx == 0 .. (GRID_DIMENSIONS - 1)
\* Python's None; a cell is <<row, col>>, an axis lock is <<"row"|"col", idx>>.
None == <<>>

\* Pointer coordinates delivered with an event (event.x, event.y).
\* Pixels: left/above the canvas, the first pixel of every cell, the last
\* pixel of the canvas and the first pixel past it.
Pixels ==
    {-1} \cup {k * CELL_SIZE : k \in 0 .. GRID_DIMENSIONS}
         \cup {GRID_DIMENSIONS * CELL_SIZE - 1}
\* CornerPixels: the first and the last pixel of the canvas and the pixels
\* just outside it.
CornerPixels ==
    {-1, 0, GRID_DIMENSIONS * CELL_SIZE - 1, GRID_DIMENSIONS * CELL_SIZE}
\* InsidePixels: the first and the last pixel of the canvas.
InsidePixels ==
    {0, GRID_DIMENSIONS * CELL_SIZE - 1}

\* Hint entries: HINTS_PER_SIDE per row and per column.
HintIdx == 0 .. (HINTS_PER_SIDE - 1)
\* What a user types into a hint entry, and the entries typed into.
HintTexts == {"12"}
TypedLines == {0, GRID_DIMENSIONS - 1}
TypedSlots == {0, HINTS_PER_SIDE - 1}

VARIABLES
    grid_state,             \* self.grid_state[row][col]
    rect_fill,              \* fill option of canvas item rect_ids[row][col]
    mark_items,             \* canvas items carrying tag mark_tags[row][col]
    user_is_dragging,       \* self.user_is_dragging
    dragging_lock_axis,     \* self.dragging_lock_axis
    dragging_path_cells,    \* self.dragging_path_cells
    dragging_target_state,  \* self.dragging_target_state
    last_event,             \* the event handled last (history)
    set_cell_calls,         \* the _set_cell calls made by the last handler (history)
    stroke_cells,           \* cells written by press/drag since the last accepted press (history)
    row_hint_entries,       \* text of self.row_hint_entries[row][i]
    col_hint_entries,       \* text of self.col_hint_entries[col][i]
    n_events                \* number of events handled so far

vars ==
    <<grid_state, rect_fill, mark_items, user_is_dragging, dragging_lock_axis,
      dragging_path_cells, dragging_target_state, last_event, set_cell_calls,
      stroke_cells, row_hint_entries, col_hint_entries, n_events>>

hints == <<row_hint_entries, col_hint_entries>>

\* The grid together with the canvas items rendering it and the log of
\* _set_cell calls of the handler being run.
Board ==
    [grid_state |-> grid_state, rect_fill |-> rect_fill,
     mark_items |-> mark_items, calls |-> <<>>]

\* ---- helpers of PicrossApp ----

\* Variant of _event_to_cell that clamps the cell into the grid instead of
\* returning None.
_event_to_cell_Clamped(x, y) ==
    LET clamp(v) == IF v < 0 THEN 0
                    ELSE IF v >= GRID_DIMENSIONS THEN GRID_DIMENSIONS - 1 ELSE v
    IN  <<clamp(y \div CELL_SIZE), clamp(x \div CELL_SIZE)>>

\* _event_to_cell: pixel position to cell, None outside the grid.
_event_to_cell(x, y) ==
    IF x < 0 \/ y < 0 THEN None
    ELSE LET col == x \div CELL_SIZE
             row == y \div CELL_SIZE
         IN  IF 0 <= row /\ row < GRID_DIMENSIONS /\ 0 <= col /\ col < GRID_DIMENSIONS
             THEN <<row, col>>
             ELSE None

\* Variant of _event_to_locked_cell without either bounds validation.
_event_to_locked_cell_Unvalidated(lock, x, y) ==
    LET row == IF lock # None /\ lock[1] = "row" THEN lock[2] ELSE y \div CELL_SIZE
        col == IF lock # None /\ lock[1] = "col" THEN lock[2] ELSE x \div CELL_SIZE
    IN  <<row, col>>

\* _event_to_locked_cell: the cell of the event, projected on the lock.
_event_to_locked_cell(lock, x, y) ==
    LET base == _event_to_cell(x, y)
    IN  IF base = None THEN None
        ELSE LET row == IF lock # None /\ lock[1] = "row" THEN lock[2]
                        ELSE IF lock # None /\ lock[1] = "col" THEN y \div CELL_SIZE
                        ELSE base[1]
                 col == IF lock # None /\ lock[1] = "row" THEN x \div CELL_SIZE
                        ELSE IF lock # None /\ lock[1] = "col" THEN lock[2]
                        ELSE base[2]
             IN  IF row < 0 \/ row >= GRID_DIMENSIONS \/ col < 0 \/ col >= GRID_DIMENSIONS
                 THEN None
                 ELSE <<row, col>>

\* Variant of _update_drag_axis_lock with the two axes exchanged.
_update_drag_axis_lock_Swapped(path, lock, cell) ==
    LET path1 == IF path = <<>> \/ path[Len(path)] # cell
                 THEN Append(path, cell) ELSE path
        lock1 == IF Len(path1) = 2 /\ lock = None
                 THEN IF path1[1][1] = path1[2][1] THEN <<"col", path1[1][2]>>
                      ELSE IF path1[1][2] = path1[2][2] THEN <<"row", path1[1][1]>>
                      ELSE lock
                 ELSE lock
    IN  [path |-> path1, lock |-> lock1]

\* _update_drag_axis_lock: append the cell to the path, decide the lock when
\* the path has exactly two cells.
_update_drag_axis_lock(path, lock, cell) ==
    LET path1 == IF path = <<>> \/ path[Len(path)] # cell
                 THEN Append(path, cell) ELSE path
        lock1 == IF Len(path1) = 2 /\ lock = None
                 THEN IF path1[1][1] = path1[2][1] THEN <<"row", path1[1][1]>>
                      ELSE IF path1[1][2] = path1[2][2] THEN <<"col", path1[1][2]>>
                      ELSE lock
                 ELSE lock
    IN  [path |-> path1, lock |-> lock1]

\* Variant of _compute_drag_target that never toggles.
_compute_drag_target_NoToggle(grid, row, col, desired_state) ==
    desired_state

\* _compute_drag_target: the state a gesture paints, from the pressed cell.
_compute_drag_target(grid, row, col, desired_state) ==
    LET current == grid[row][col]
    IN  IF desired_state = EMPTY THEN EMPTY
        ELSE IF current = desired_state THEN EMPTY ELSE desired_state

\* Variant of _set_cell that indexes the grid with row and column exchanged.
_set_cell_Transposed(b, row, col, state) ==
    [grid_state |-> [b.grid_state EXCEPT ![col][row] = state],
     rect_fill  |-> [b.rect_fill EXCEPT ![col][row] =
                        IF state = FILLED THEN CELL_FILLED_COLOR ELSE GRID_BG_COLOR],
     mark_items |-> [b.mark_items EXCEPT ![col][row] =
                        IF state = X THEN <<"line", "line">>
                        ELSE IF state = MAYBE THEN <<"text?">>
                        ELSE <<>>],
     calls      |-> Append(b.calls, <<row, col, b.grid_state[row][col], state>>)]

\* Variant of _set_cell without grid_canvas.delete(tag): the items drawn
\* before stay on the canvas.
_set_cell_NoDelete(b, row, col, state) ==
    LET kept == b.mark_items[row][col]
    IN  [grid_state |-> [b.grid_state EXCEPT ![row][col] = state],
         rect_fill  |-> [b.rect_fill EXCEPT ![row][col] =
                            IF state = FILLED THEN CELL_FILLED_COLOR ELSE GRID_BG_COLOR],
         mark_items |-> [b.mark_items EXCEPT ![row][col] =
                            IF state = X THEN kept \o <<"line", "line">>
                            ELSE IF state = MAYBE THEN kept \o <<"text?">>
                            ELSE kept],
         calls      |-> Append(b.calls, <<row, col, b.grid_state[row][col], state>>)]

\* _set_cell: write the state and redraw the cell's canvas items.
_set_cell(b, row, col, state) ==
    LET cleared == <<>>   \* grid_canvas.delete(tag)
    IN  [grid_state |-> [b.grid_state EXCEPT ![row][col] = state],
         rect_fill  |-> [b.rect_fill EXCEPT ![row][col] =
                            IF state = FILLED THEN CELL_FILLED_COLOR ELSE GRID_BG_COLOR],
         mark_items |-> [b.mark_items EXCEPT ![row][col] =
                            IF state = X THEN cleared \o <<"line", "line">>
                            ELSE IF state = MAYBE THEN cleared \o <<"text?">>
                            ELSE cleared],
         calls      |-> Append(b.calls, <<row, col, b.grid_state[row][col], state>>)]

\* Variant of _apply_cell_state that toggles every cell it reaches: a cell
\* holding the target state is cleared.
_apply_cell_state_Retoggle(b, lock, x, y, target_state) ==
    LET cell == _event_to_locked_cell(lock, x, y)
    IN  IF cell = None THEN b
        ELSE IF lock # None /\ ( (lock[1] = "row" /\ cell[1] # lock[2])
                              \/ (lock[1] = "col" /\ cell[2] # lock[2]) )
        THEN b
        ELSE IF b.grid_state[cell[1]][cell[2]] # target_state
        THEN _set_cell(b, cell[1], cell[2], target_state)
        ELSE IF target_state # EMPTY
        THEN _set_cell(b, cell[1], cell[2], EMPTY)
        ELSE b

\* Variant of _apply_cell_state that writes the cell whatever it holds.
_apply_cell_state_Unguarded(b, lock, x, y, target_state) ==
    LET cell == _event_to_locked_cell(lock, x, y)
    IN  IF cell = None THEN b
        ELSE IF lock # None /\ ( (lock[1] = "row" /\ cell[1] # lock[2])
                              \/ (lock[1] = "col" /\ cell[2] # lock[2]) )
        THEN b
        ELSE _set_cell(b, cell[1], cell[2], target_state)

\* _apply_cell_state: paint the (locked) cell of the event unless it already
\* holds the target state.
_apply_cell_state(b, lock, x, y, target_state) ==
    LET cell == _event_to_locked_cell(lock, x, y)
    IN  IF cell = None THEN b
        ELSE IF lock # None /\ ( (lock[1] = "row" /\ cell[1] # lock[2])
                              \/ (lock[1] = "col" /\ cell[2] # lock[2]) )
        THEN b
        ELSE IF b.grid_state[cell[1]][cell[2]] # target_state
        THEN _set_cell(b, cell[1], cell[2], target_state)
        ELSE b

\* The cells a handler's _set_cell calls wrote.
Written(calls) == {<<calls[i][1], calls[i][2]>> : i \in 1 .. Len(calls)}

\* The record kept of the event handled last: the handler, the state its
\* binding requests, the cell under the pointer (None off the grid), and
\* whether no drag session was active when it arrived.
Event(kind, state, cell) ==
    [kind |-> kind, state |-> state, cell |-> cell, idle |-> ~user_is_dragging]

\* ---- initial state: PicrossApp.__init__ and _draw_grid ----
Init ==
    /\ grid_state = [row \in Idx |-> [col \in Idx |-> EMPTY]]
    /\ rect_fill = [row \in Idx |-> [col \in Idx |-> GRID_BG_COLOR]]
    /\ mark_items = [row \in Idx |-> [col \in Idx |-> <<>>]]
    /\ user_is_dragging = FALSE
    /\ dragging_lock_axis = None
    /\ dragging_path_cells = <<>>
    /\ dragging_target_state = EMPTY
    /\ last_event = [kind |-> "init", state |-> EMPTY, cell |-> None, idle |-> TRUE]
    /\ set_cell_calls = <<>>
    /\ stroke_cells = {}
    /\ row_hint_entries = [row \in Idx |-> [i \in HintIdx |-> ""]]
    /\ col_hint_entries = [col \in Idx |-> [i \in HintIdx |-> ""]]
    /\ n_events = 0

\* ---- handlers ----

\* _on_press(event, desired_state), bound to <Button-k>.
_on_press(x, y, desired_state) ==
    LET cell == _event_to_locked_cell(dragging_lock_axis, x, y)
    IN  /\ n_events' = n_events + 1
        /\ UNCHANGED hints
        /\ last_event' = Event("press", desired_state, _event_to_cell(x, y))
        /\ IF cell = None
           THEN /\ set_cell_calls' = <<>>
                /\ UNCHANGED <<grid_state, rect_fill, mark_items, user_is_dragging,
                               dragging_lock_axis, dragging_path_cells,
                               dragging_target_state, stroke_cells>>
           ELSE LET target == _compute_drag_target(grid_state, cell[1], cell[2], desired_state)
                    upd == _update_drag_axis_lock(<<>>, None, cell)
                    b == _apply_cell_state(Board, upd.lock, x, y, target)
                IN  /\ dragging_target_state' = target
                    /\ dragging_path_cells' = upd.path
                    /\ dragging_lock_axis' = upd.lock
                    /\ user_is_dragging' = TRUE
                    /\ grid_state' = b.grid_state
                    /\ rect_fill' = b.rect_fill
                    /\ mark_items' = b.mark_items
                    /\ set_cell_calls' = b.calls
                    /\ stroke_cells' = Written(b.calls)

\* Variant of _on_drag that paints the cell under the pointer, lock or not.
_on_drag_FreePaint(x, y) ==
    LET cell == _event_to_cell(x, y)
    IN  /\ n_events' = n_events + 1
        /\ UNCHANGED hints
        /\ last_event' = Event("drag", EMPTY, _event_to_cell(x, y))
        /\ IF ~user_is_dragging \/ cell = None
           THEN /\ set_cell_calls' = <<>>
                /\ UNCHANGED <<grid_state, rect_fill, mark_items, user_is_dragging,
                               dragging_lock_axis, dragging_path_cells,
                               dragging_target_state, stroke_cells>>
           ELSE LET upd == _update_drag_axis_lock(dragging_path_cells, dragging_lock_axis, cell)
                    b == _apply_cell_state(Board, None, x, y, dragging_target_state)
                IN  /\ dragging_path_cells' = upd.path
                    /\ dragging_lock_axis' = upd.lock
                    /\ grid_state' = b.grid_state
                    /\ rect_fill' = b.rect_fill
                    /\ mark_items' = b.mark_items
                    /\ set_cell_calls' = b.calls
                    /\ stroke_cells' = stroke_cells \cup Written(b.calls)
                    /\ UNCHANGED <<user_is_dragging, dragging_target_state>>

\* Variant of _on_drag without the early return for user_is_dragging.
_on_drag_NoIdleGuard(x, y) ==
    LET cell == _event_to_locked_cell(dragging_lock_axis, x, y)
    IN  /\ n_events' = n_events + 1
        /\ UNCHANGED hints
        /\ last_event' = Event("drag", EMPTY, _event_to_cell(x, y))
        /\ IF cell = None
           THEN /\ set_cell_calls' = <<>>
                /\ UNCHANGED <<grid_state, rect_fill, mark_items, user_is_dragging,
                               dragging_lock_axis, dragging_path_cells,
                               dragging_target_state, stroke_cells>>
           ELSE LET upd == _update_drag_axis_lock(dragging_path_cells, dragging_lock_axis, cell)
                    b == _apply_cell_state(Board, upd.lock, x, y, dragging_target_state)
                IN  /\ dragging_path_cells' = upd.path
                    /\ dragging_lock_axis' = upd.lock
                    /\ grid_state' = b.grid_state
                    /\ rect_fill' = b.rect_fill
                    /\ mark_items' = b.mark_items
                    /\ set_cell_calls' = b.calls
                    /\ stroke_cells' = stroke_cells \cup Written(b.calls)
                    /\ UNCHANGED <<user_is_dragging, dragging_target_state>>

\* _on_drag(event), bound to <Bk-Motion>.
_on_drag(x, y) ==
    LET cell == _event_to_locked_cell(dragging_lock_axis, x, y)
    IN  /\ n_events' = n_events + 1
        /\ UNCHANGED hints
        /\ last_event' = Event("drag", EMPTY, _event_to_cell(x, y))
        /\ IF ~user_is_dragging \/ cell = None
           THEN /\ set_cell_calls' = <<>>
                /\ UNCHANGED <<grid_state, rect_fill, mark_items, user_is_dragging,
                               dragging_lock_axis, dragging_path_cells,
                               dragging_target_state, stroke_cells>>
           ELSE LET upd == _update_drag_axis_lock(dragging_path_cells, dragging_lock_axis, cell)
                    b == _apply_cell_state(Board, upd.lock, x, y, dragging_target_state)
                IN  /\ dragging_path_cells' = upd.path
                    /\ dragging_lock_axis' = upd.lock
                    /\ grid_state' = b.grid_state
                    /\ rect_fill' = b.rect_fill
                    /\ mark_items' = b.mark_items
                    /\ set_cell_calls' = b.calls
                    /\ stroke_cells' = stroke_cells \cup Written(b.calls)
                    /\ UNCHANGED <<user_is_dragging, dragging_target_state>>

\* Variant of _reset_drag that leaves the axis lock as it is.
_reset_drag_KeepLock ==
    /\ n_events' = n_events + 1
    /\ UNCHANGED hints
    /\ last_event' = Event("release", EMPTY, None)
    /\ user_is_dragging' = FALSE
    /\ dragging_path_cells' = <<>>
    /\ dragging_target_state' = EMPTY
    /\ set_cell_calls' = <<>>
    /\ UNCHANGED <<grid_state, rect_fill, mark_items, stroke_cells, dragging_lock_axis>>

\* _reset_drag(event), bound to <ButtonRelease-k>.
_reset_drag ==
    /\ n_events' = n_events + 1
    /\ UNCHANGED hints
    /\ last_event' = Event("release", EMPTY, None)
    /\ user_is_dragging' = FALSE
    /\ dragging_lock_axis' = None
    /\ dragging_path_cells' = <<>>
    /\ dragging_target_state' = EMPTY
    /\ set_cell_calls' = <<>>
    /\ UNCHANGED <<grid_state, rect_fill, mark_items, stroke_cells>>

\* The cells in the order reset_board's nested loops visit them.
RowMajor == [i \in 1 .. (GRID_DIMENSIONS * GRID_DIMENSIONS) |->
                <<(i - 1) \div GRID_DIMENSIONS, (i - 1) % GRID_DIMENSIONS>>]

\* Variant of ResetFrom whose loop stops one cell early.
RECURSIVE ResetFrom_SkipLast(_, _)
ResetFrom_SkipLast(b, i) ==
    IF i >= Len(RowMajor) THEN b
    ELSE ResetFrom_SkipLast(_set_cell(b, RowMajor[i][1], RowMajor[i][2], EMPTY), i + 1)

RECURSIVE ResetFrom(_, _)
ResetFrom(b, i) ==
    IF i > Len(RowMajor) THEN b
    ELSE ResetFrom(_set_cell(b, RowMajor[i][1], RowMajor[i][2], EMPTY), i + 1)

\* reset_board(), the "Reset Board" button.
reset_board ==
    LET b == ResetFrom(Board, 1)
    IN  /\ n_events' = n_events + 1
        /\ UNCHANGED hints
        /\ last_event' = Event("reset", EMPTY, None)
        /\ grid_state' = b.grid_state
        /\ rect_fill' = b.rect_fill
        /\ mark_items' = b.mark_items
        /\ set_cell_calls' = b.calls
        /\ UNCHANGED <<user_is_dragging, dragging_lock_axis, dragging_path_cells,
                       dragging_target_state, stroke_cells>>

\* Variant of clear_hints without the loop over the column hints.
clear_hints_RowsOnly ==
    /\ n_events' = n_events + 1
    /\ last_event' = Event("clear_hints", EMPTY, None)
    /\ row_hint_entries' = [row \in Idx |-> [i \in HintIdx |-> ""]]
    /\ set_cell_calls' = <<>>
    /\ UNCHANGED <<grid_state, rect_fill, mark_items, user_is_dragging,
                   dragging_lock_axis, dragging_path_cells, dragging_target_state,
                   stroke_cells, col_hint_entries>>

\* clear_hints(), the "Clear Hints" button: delete(0, END) on every entry.
clear_hints ==
    /\ n_events' = n_events + 1
    /\ last_event' = Event("clear_hints", EMPTY, None)
    /\ row_hint_entries' = [row \in Idx |-> [i \in HintIdx |-> ""]]
    /\ col_hint_entries' = [col \in Idx |-> [i \in HintIdx |-> ""]]
    /\ set_cell_calls' = <<>>
    /\ UNCHANGED <<grid_state, rect_fill, mark_items, user_is_dragging,
                   dragging_lock_axis, dragging_path_cells, dragging_target_state,
                   stroke_cells>>

\* The user edits a hint entry (a tk.Entry of a row or of a column).
type_hint(side, k, i, text) ==
    /\ n_events' = n_events + 1
    /\ last_event' = Event("type_hint", EMPTY, None)
    /\ IF side = "row"
       THEN /\ row_hint_entries' = [row_hint_entries EXCEPT ![k][i] = text]
            /\ UNCHANGED col_hint_entries
       ELSE /\ col_hint_entries' = [col_hint_entries EXCEPT ![k][i] = text]
            /\ UNCHANGED row_hint_entries
    /\ set_cell_calls' = <<>>
    /\ UNCHANGED <<grid_state, rect_fill, mark_items, user_is_dragging,
                   dragging_lock_axis, dragging_path_cells, dragging_target_state,
                   stroke_cells>>

\* The events of Spec: MaxEvents events, the pointer on CornerPixels.
Press ==
    \E x \in CornerPixels, y \in CornerPixels, s \in CellState :
        n_events < MaxEvents /\ _on_press(x, y, s)
Drag ==
    \E x \in CornerPixels, y \in CornerPixels :
        n_events < MaxEvents /\ _on_drag(x, y)
Release ==
    n_events < MaxEvents /\ _reset_drag
ResetBoard ==
    n_events < MaxEvents /\ reset_board

Next == Press \/ Drag \/ Release \/ ResetBoard

\* The events of SpecFull: MaxEventsFull events, the pointer on Pixels.
PressFull ==
    \E x \in Pixels, y \in Pixels, s \in CellState :
        n_events < MaxEventsFull /\ _on_press(x, y, s)
DragFull ==
    \E x \in Pixels, y \in Pixels :
        n_events < MaxEventsFull /\ _on_drag(x, y)
ReleaseFull ==
    n_events < MaxEventsFull /\ _reset_drag
ResetBoardFull ==
    n_events < MaxEventsFull /\ reset_board

NextFull == PressFull \/ DragFull \/ ReleaseFull \/ ResetBoardFull

\* The events of SpecHints: MaxEventsHints events, the pointer on
\* InsidePixels, the hint entries edited and cleared.
PressHints ==
    \E x \in InsidePixels, y \in InsidePixels, s \in CellState :
        n_events < MaxEventsHints /\ _on_press(x, y, s)
DragHints ==
    \E x \in InsidePixels, y \in InsidePixels :
        n_events < MaxEventsHints /\ _on_drag(x, y)
ReleaseHints ==
    n_events < MaxEventsHints /\ _reset_drag
ResetBoardHints ==
    n_events < MaxEventsHints /\ reset_board
ClearHints ==
    n_events < MaxEventsHints /\ clear_hints
TypeHint ==
    \E side \in {"row", "col"}, k \in TypedLines, i \in TypedSlots, text \in HintTexts :
        n_events < MaxEventsHints /\ type_hint(side, k, i, text)

NextHints ==
    PressHints \/ DragHints \/ ReleaseHints \/ ResetBoardHints \/ ClearHints \/ TypeHint

Spec == Init /\ [][Next]_vars

SpecHints == Init /\ [][NextHints]_vars

SpecFull == Init /\ [][NextFull]_vars

\* ---- properties ----

\* The program's own fields (the history variables left out).
session == <<user_is_dragging, dragging_lock_axis, dragging_path_cells, dragging_target_state>>
canvas == <<grid_state, rect_fill, mark_items>>

\* The cell lies on the locked row or column.
OnAxis(lock, cell) ==
    \/ lock[1] = "row" /\ cell[1] = lock[2]
    \/ lock[1] = "col" /\ cell[2] = lock[2]

Cells == Idx \X Idx
NonEmptyCells == {c \in Cells : grid_state[c[1]][c[2]] # EMPTY}

\* C1 (toggle law): a press from Idle over a cell of the grid with requested
\* state S in {FILLED, X, MAYBE} leaves that cell EMPTY if it held S and
\* holding S otherwise, and changes no other cell.
C1_ToggleLaw ==
    [][( /\ ~user_is_dragging
         /\ last_event'.kind = "press" /\ last_event'.cell # None
         /\ last_event'.state # EMPTY )
          => LET c == last_event'.cell
                 s == last_event'.state
             IN  grid_state' = [grid_state EXCEPT ![c[1]][c[2]] =
                                    IF grid_state[c[1]][c[2]] = s THEN EMPTY ELSE s]
       ]_vars

\* A press from Idle has just toggled a cell holding the requested state
\* back to EMPTY.
C1_Witness ==
    /\ last_event.kind = "press" /\ last_event.idle /\ last_event.state # EMPTY
    /\ Len(set_cell_calls) = 1
    /\ set_cell_calls[1][3] = last_event.state
    /\ set_cell_calls[1][4] = EMPTY

\* C2 (clear law): a press with requested state EMPTY over a cell of the grid,
\* in any state of the controller, resolves the target to EMPTY and leaves
\* the cell under the pointer EMPTY; when that cell was EMPTY already no
\* _set_cell call is made and the grid is unchanged.
C2_ClearLaw ==
    [][(last_event'.kind = "press" /\ last_event'.cell # None /\ last_event'.state = EMPTY)
          => LET c == last_event'.cell
             IN  /\ dragging_target_state' = EMPTY
                 /\ grid_state'[c[1]][c[2]] = EMPTY
                 /\ \A d \in Cells \ {c} : grid_state'[d[1]][d[2]] = grid_state[d[1]][d[2]]
                 /\ grid_state[c[1]][c[2]] = EMPTY
                        => (set_cell_calls' = <<>> /\ UNCHANGED canvas)
       ]_vars

\* An erase press has just cleared a cell that was not EMPTY.
C2_Witness ==
    /\ last_event.kind = "press" /\ last_event.state = EMPTY
    /\ Len(set_cell_calls) = 1
    /\ set_cell_calls[1][3] # EMPTY
    /\ set_cell_calls[1][4] = EMPTY
    /\ dragging_target_state = EMPTY

\* C3 (axis-lock persistence): once set, the lock keeps its value over every
\* event but a release or an accepted press (the end of the gesture), and
\* every cell a drag-move writes while the lock is set lies on the locked
\* row or column.
C3_AxisLockPersists ==
    [][/\ ( /\ dragging_lock_axis # None
            /\ last_event'.kind # "release"
            /\ ~(last_event'.kind = "press" /\ last_event'.cell # None) )
          => dragging_lock_axis' = dragging_lock_axis
       /\ (last_event'.kind = "drag" /\ dragging_lock_axis' # None)
          => \A c \in Written(set_cell_calls') : OnAxis(dragging_lock_axis', c)
      ]_vars

\* A drag-move whose pointer was off the locked line has just painted the
\* cell it projects to on that line.
C3_Witness ==
    /\ last_event.kind = "drag"
    /\ dragging_lock_axis # None
    /\ last_event.cell # None
    /\ ~OnAxis(dragging_lock_axis, last_event.cell)
    /\ Len(set_cell_calls) = 1
    /\ Len(dragging_path_cells) >= 3

\* C4 (straight strokes only): the cells written since the last accepted
\* press lie in one row or in one column.
C4_StraightStrokes ==
    \/ \E k \in Idx : \A c \in stroke_cells : c[1] = k
    \/ \E k \in Idx : \A c \in stroke_cells : c[2] = k

Abs(v) == IF v < 0 THEN -v ELSE v

\* C5 (dominant-axis lock): a drag-move handled with the lock unset, to a
\* cell whose row and column both differ from the start cell, sets the lock:
\* to the start column if |dr| > |dc|, to the start row otherwise.
C5_DominantAxisLock ==
    [][LET c == last_event'.cell
           start == dragging_path_cells[1]
       IN  ( /\ user_is_dragging /\ dragging_lock_axis = None
             /\ dragging_path_cells # <<>>
             /\ last_event'.kind = "drag" /\ c # None
             /\ c[1] # start[1] /\ c[2] # start[2] )
           => dragging_lock_axis' =
                 IF Abs(c[1] - start[1]) > Abs(c[2] - start[2])
                 THEN <<"col", start[2]>> ELSE <<"row", start[1]>>
      ]_vars

\* The pixel position maps to no cell of the grid (floor(v / CELL_SIZE)
\* outside 0 .. GRID_DIMENSIONS-1 on either axis).
OutsideGrid(x, y) ==
    \/ (x \div CELL_SIZE) \notin Idx
    \/ (y \div CELL_SIZE) \notin Idx

ClampIdx(v) == IF v < 0 THEN 0 ELSE IF v >= GRID_DIMENSIONS THEN GRID_DIMENSIONS - 1 ELSE v

C7_DragFillsSpan ==
    [][LET c == last_event'.cell
           start == dragging_path_cells[1]
           lo == IF start[2] < c[2] THEN start[2] ELSE c[2]
           hi == IF start[2] < c[2] THEN c[2] ELSE start[2]
       IN  ( /\ last_event.kind = "press" /\ last_event.idle
             /\ user_is_dragging /\ Len(dragging_path_cells) = 1
             /\ last_event'.kind = "drag" /\ c # None
             /\ c[1] = start[1] /\ c[2] # start[2] )
           => grid_state' =
                 [row \in Idx |-> [col \in Idx |->
                     IF row = start[1] /\ lo <= col /\ col <= hi
                     THEN dragging_target_state
                     ELSE grid_state[row][col]]]
      ]_vars

\* C8 (drag while Idle): a drag-move handled while no drag session is active
\* writes no cell and leaves grid, canvas and drag session unchanged.
C8_IdleDragNoOp ==
    [][(~user_is_dragging /\ last_event'.kind = "drag")
          => (set_cell_calls' = <<>> /\ UNCHANGED canvas /\ UNCHANGED session)
       ]_vars

\* A drag-move over a cell of the grid has just been handled while Idle,
\* after a gesture that painted cells was released.
C8_Witness ==
    /\ last_event.kind = "drag" /\ last_event.idle /\ last_event.cell # None
    /\ ~user_is_dragging
    /\ NonEmptyCells # {}
    /\ grid_state[last_event.cell[1]][last_event.cell[2]] = EMPTY

\* The drag session holds its neutral values.
Neutral ==
    /\ ~user_is_dragging
    /\ dragging_lock_axis = None
    /\ dragging_path_cells = <<>>
    /\ dragging_target_state = EMPTY

\* C9 (release): a release leaves the drag session neutral and writes no
\* cell; handled while Idle it changes nothing; and a press accepted right
\* after a release starts its session with the lock unset and the pressed
\* cell as the only path cell.
C9_ReleaseResets ==
    [][/\ (last_event'.kind = "release")
            => /\ Neutral'
               /\ set_cell_calls' = <<>>
               /\ UNCHANGED canvas
               /\ ~user_is_dragging => UNCHANGED session
       /\ (last_event.kind = "release" /\ last_event'.kind = "press" /\ last_event'.cell # None)
            => /\ user_is_dragging'
               /\ dragging_lock_axis' = None
               /\ dragging_path_cells' = <<last_event'.cell>>
      ]_vars

\* A release has just ended a gesture that painted two cells of one line
\* (so its axis lock was set).
C9_Witness ==
    /\ last_event.kind = "release" /\ ~last_event.idle
    /\ Neutral
    /\ Cardinality(stroke_cells) = 2
    /\ \/ \E k \in Idx : \A c \in stroke_cells : c[1] = k
       \/ \E k \in Idx : \A c \in stroke_cells : c[2] = k

\* C10 (no notification for an unchanged cell): no handler calls _set_cell
\* (write and redraw) for a cell that already holds the state written.
C10_NoRedundantSetCell ==
    \A i \in 1 .. Len(set_cell_calls) : set_cell_calls[i][3] # set_cell_calls[i][4]

\* setCell(r, c, EMPTY) called on the cells that are not EMPTY, and on no
\* other cell, in the order of RowMajor.
RECURSIVE ClearNonEmptyFrom(_, _)
ClearNonEmptyFrom(b, i) ==
    IF i > Len(RowMajor) THEN b
    ELSE LET row == RowMajor[i][1]
             col == RowMajor[i][2]
         IN  ClearNonEmptyFrom(IF b.grid_state[row][col] # EMPTY
                               THEN _set_cell(b, row, col, EMPTY) ELSE b, i + 1)

\* C11 (reset end-state): from any reachable grid, reset_board leaves every
\* cell EMPTY, and the grid and its rendering (fills and overlays) are the
\* ones obtained by calling _set_cell(r, c, EMPTY) on just the cells that
\* were not EMPTY.
C11_ResetEndState ==
    [][(last_event'.kind = "reset")
          => LET b == ClearNonEmptyFrom(Board, 1)
             IN  /\ \A c \in Cells : grid_state'[c[1]][c[2]] = EMPTY
                 /\ grid_state' = b.grid_state
                 /\ rect_fill' = b.rect_fill
                 /\ mark_items' = b.mark_items
       ]_vars

\* reset_board has just cleared a grid that held two or more non-EMPTY
\* cells, the last cell of the grid among them.
C11_Witness ==
    /\ last_event.kind = "reset"
    /\ NonEmptyCells = {}
    /\ Cardinality({i \in 1 .. Len(set_cell_calls) : set_cell_calls[i][3] # EMPTY}) >= 2
    /\ set_cell_calls[Len(set_cell_calls)][3] # EMPTY

AllHintsEmpty ==
    /\ \A row \in Idx : \A i \in HintIdx : row_hint_entries[row][i] = ""
    /\ \A col \in Idx : \A i \in HintIdx : col_hint_entries[col][i] = ""

\* C12 (independence of grid, hints and drag session): reset_board leaves
\* every hint text and the drag session unchanged; clear_hints leaves every
\* row and column hint empty and the grid, its rendering and the drag
\* session unchanged; no press, drag-move or release changes a hint.
C12_Independence ==
    [][/\ (last_event'.kind = "reset")
            => (UNCHANGED hints /\ UNCHANGED session)
       /\ (last_event'.kind = "clear_hints")
            => (AllHintsEmpty' /\ UNCHANGED canvas /\ UNCHANGED session)
       /\ (last_event'.kind \in {"press", "drag", "release"})
            => UNCHANGED hints
      ]_vars

\* reset_board has just cleared a painted grid in the middle of a gesture
\* while a row hint holds text: the hint and the gesture are still there.
C12_Witness ==
    /\ last_event.kind = "reset"
    /\ \E i \in 1 .. Len(set_cell_calls) : set_cell_calls[i][3] # EMPTY
    /\ \E k \in Idx, i \in HintIdx : row_hint_entries[k][i] # ""
    /\ user_is_dragging

\* C13 (write-then-read): for every cell (r, c) of the grid and every state
\* S, after _set_cell(r, c, S) the cell reads back S and every other cell
\* holds what it held; and a handler that made a single _set_cell call
\* leaves the cell of the call holding the state written.
C13_WriteThenRead ==
    /\ \A row \in Idx, col \in Idx, S \in CellState :
          LET b == _set_cell(Board, row, col, S)
          IN  /\ b.grid_state[row][col] = S
              /\ \A d \in Cells \ {<<row, col>>} :
                    b.grid_state[d[1]][d[2]] = grid_state[d[1]][d[2]]
    /\ Len(set_cell_calls) = 1
          => grid_state[set_cell_calls[1][1]][set_cell_calls[1][2]] = set_cell_calls[1][4]

\* A handler has just overwritten a non-EMPTY cell off the diagonal of the
\* grid with another non-EMPTY state, next to other painted cells.
C13_Witness ==
    /\ Len(set_cell_calls) = 1
    /\ set_cell_calls[1][1] # set_cell_calls[1][2]
    /\ set_cell_calls[1][3] # EMPTY
    /\ set_cell_calls[1][4] \notin {EMPTY, set_cell_calls[1][3]}
    /\ grid_state[set_cell_calls[1][1]][set_cell_calls[1][2]] = set_cell_calls[1][4]
    /\ Cardinality(NonEmptyCells) >= 2

\* C14 (axis determination on a non-diagonal first move): while dragging
\* with the lock unset and the start cell the only path cell, a drag-move to
\* a cell that differs from the start cell only in its row sets the lock to
\* the start cell's column, one that differs only in its column sets it to
\* the start cell's row, and one onto the start cell leaves the lock unset
\* and the path as it was.
C14_AxisDetermination ==
    [][( /\ user_is_dragging /\ dragging_lock_axis = None
         /\ Len(dragging_path_cells) = 1
         /\ last_event'.kind = "drag" /\ last_event'.cell # None )
          => LET start == dragging_path_cells[1]
                 c == last_event'.cell
             IN  /\ (c[1] # start[1] /\ c[2] = start[2])
                       => dragging_lock_axis' = <<"col", start[2]>>
                 /\ (c[1] = start[1] /\ c[2] # start[2])
                       => dragging_lock_axis' = <<"row", start[1]>>
                 /\ (c = start)
                       => /\ dragging_lock_axis' = None
                          /\ dragging_path_cells' = dragging_path_cells
       ]_vars

\* A drag-move down the last column has just locked the gesture to that
\* column.
C14_Witness ==
    /\ last_event.kind = "drag" /\ last_event.cell # None
    /\ Len(dragging_path_cells) = 2
    /\ dragging_path_cells[1] = <<0, GRID_DIMENSIONS - 1>>
    /\ dragging_path_cells[2] = <<GRID_DIMENSIONS - 1, GRID_DIMENSIONS - 1>>
    /\ dragging_lock_axis = <<"col", GRID_DIMENSIONS - 1>>

\* C15 (one target state per gesture): a drag-move (and reset_board) leaves
\* dragging_target_state as the press resolved it; every cell a drag-move
\* changes is set to exactly that target, whatever it held; and a cell that
\* already holds the target is not written and keeps its rendering.
C15_OneTargetPerGesture ==
    [][/\ (last_event'.kind \in {"drag", "reset"})
            => dragging_target_state' = dragging_target_state
       /\ (last_event'.kind = "drag")
            => /\ \A i \in 1 .. Len(set_cell_calls') :
                     set_cell_calls'[i][4] = dragging_target_state
               /\ \A c \in Cells :
                     /\ grid_state'[c[1]][c[2]] \in
                           {grid_state[c[1]][c[2]], dragging_target_state}
                     /\ grid_state[c[1]][c[2]] = dragging_target_state
                           => /\ c \notin Written(set_cell_calls')
                              /\ grid_state'[c[1]][c[2]] = dragging_target_state
                              /\ rect_fill'[c[1]][c[2]] = rect_fill[c[1]][c[2]]
                              /\ mark_items'[c[1]][c[2]] = mark_items[c[1]][c[2]]
      ]_vars

\* A drag-move has just overwritten a cell holding another non-EMPTY state
\* with the gesture's target.
C15_Witness ==
    /\ last_event.kind = "drag"
    /\ Len(set_cell_calls) = 1
    /\ set_cell_calls[1][3] \notin {EMPTY, dragging_target_state}
    /\ set_cell_calls[1][4] = dragging_target_state
    /\ dragging_target_state # EMPTY

\* C16 (out-of-bounds press ignored): a press at a pixel whose cell
\* (row = floor(y / CELL_SIZE), col = floor(x / CELL_SIZE)) is outside the
\* grid, negative pixels included, changes no cell, calls _set_cell for
\* none, and neither starts nor alters a drag session (so that from Idle the
\* controller stays Idle and a following drag-move is ignored).
C16_OutsidePressIgnored ==
    [][(last_event'.kind = "press")
          => \A x \in Pixels, y \in Pixels :
                (OutsideGrid(x, y) /\ _on_press(x, y, last_event'.state))
                   => /\ set_cell_calls' = <<>>
                      /\ UNCHANGED canvas
                      /\ UNCHANGED session
       ]_vars

\* A press off the grid has just been handled in the middle of a gesture
\* that painted a cell: the gesture and the cell are still there.
C16_Witness ==
    /\ last_event.kind = "press" /\ last_event.cell = None
    /\ ~last_event.idle
    /\ user_is_dragging
    /\ set_cell_calls = <<>>
    /\ NonEmptyCells # {}

\* C17 (rendered state derived from cell state): in every reachable state
\* and for every cell, the rectangle has the solid fill colour iff the cell
\* is FILLED (the background colour otherwise), the cell's overlay is the
\* two lines of the X iff it is X, the "?" text iff it is MAYBE, and no item
\* otherwise: never two overlays, never one left over from an earlier state.
C17_RenderedFromState ==
    \A c \in Cells :
        LET state == grid_state[c[1]][c[2]]
        IN  /\ rect_fill[c[1]][c[2]] =
                  IF state = FILLED THEN CELL_FILLED_COLOR ELSE GRID_BG_COLOR
            /\ state = X <=> mark_items[c[1]][c[2]] = <<"line", "line">>
            /\ state = MAYBE <=> mark_items[c[1]][c[2]] = <<"text?">>
            /\ state \in {EMPTY, FILLED} <=> mark_items[c[1]][c[2]] = <<>>

\* A cell that showed the X overlay has just been set to MAYBE and shows the
\* "?" text alone.
C17_Witness ==
    /\ Len(set_cell_calls) = 1
    /\ set_cell_calls[1][3] = X
    /\ set_cell_calls[1][4] = MAYBE
    /\ mark_items[set_cell_calls[1][1]][set_cell_calls[1][2]] = <<"text?">>

\* C18 (no out-of-range grid access): in every reachable state, with or
\* without an axis lock, the cell _event_to_locked_cell gives a handler for
\* a pointer at any pixel (negative or beyond the canvas included) is None
\* or a cell of the grid; every _set_cell call made, every path cell and
\* the index of the lock are inside the grid.
C18_NoOutOfRangeAccess ==
    /\ \A x \in Pixels, y \in Pixels :
          \A lock \in {dragging_lock_axis, None} :
              _event_to_locked_cell(lock, x, y) \in Cells \cup {None}
    /\ Written(set_cell_calls) \subseteq Cells
    /\ \A i \in 1 .. Len(dragging_path_cells) : dragging_path_cells[i] \in Cells
    /\ dragging_lock_axis # None => dragging_lock_axis[2] \in Idx

\* A drag-move off the grid has just been handled while an axis lock is set.
C18_Witness ==
    /\ last_event.kind = "drag" /\ last_event.cell = None
    /\ dragging_lock_axis # None
    /\ set_cell_calls = <<>>

\* C19 (drag-session field consistency): in every reachable state, not
\* dragging implies the lock is unset, the path empty and the target EMPTY;
\* and a set lock implies dragging, a path of two or more cells, and a lock
\* that is the row of the first path cell or its column.
C19_SessionConsistent ==
    /\ ~user_is_dragging => Neutral
    /\ dragging_lock_axis # None
          => /\ user_is_dragging
             /\ Len(dragging_path_cells) >= 2
             /\ dragging_lock_axis \in {<<"row", dragging_path_cells[1][1]>>,
                                        <<"col", dragging_path_cells[1][2]>>}

\* A gesture locked to an axis has a path of three cells.
C19_Witness ==
    /\ user_is_dragging
    /\ dragging_lock_axis # None
    /\ Len(dragging_path_cells) >= 3

\* C20 (press during an active gesture): for every press over a cell of the
\* grid, in every state of the controller (a gesture in progress with its
\* axis lock set included), the cell whose state resolves the toggle, the
\* recorded start cell and the cell painted are one cell, the cell under the
\* pointer.
C20_PressUsesPointerCell ==
    [][(last_event'.kind = "press" /\ last_event'.cell # None)
          => LET c == last_event'.cell
                 s == last_event'.state
             IN  /\ dragging_target_state' =
                       (IF s = EMPTY \/ grid_state[c[1]][c[2]] = s THEN EMPTY ELSE s)
                 /\ dragging_path_cells' = <<c>>
                 /\ Written(set_cell_calls') \subseteq {c}
                 /\ grid_state'[c[1]][c[2]] = dragging_target_state'
       ]_vars

====
